---------------------------- MODULE Spec2Model ----------------------------
(***************************************************************************)
(* A model of pkg/util/tracing/tracingui/span_registry_ui.go:              *)
(* ProcessSnapshot and its helpers (processSpan, processTag, findTxnState, *)
(* propagateTagUpwards, propagateInheritTagDownwards).                     *)
(*                                                                         *)
(* ProcessSnapshot is modelled as a state machine whose program counter pc *)
(* follows the function's loops: "index" (lines 36-46), "up"/"uptags"/     *)
(* "upwalk" (lines 47-55 and 131-144), "down"/"downtags"/"downcall"        *)
(* (lines 56-64 and 146-156), "stacks"/"fill" (lines 66-77), "done" (the   *)
(* return of lines 78-81) and "panic" (the run-time fault of v[:8] at      *)
(* line 199).  Go strings are TLA+ strings; Go maps are functions whose    *)
(* DOMAIN is the key set; pointers into processedSpans are indices.        *)
(***************************************************************************)
EXTENDS Integers, Sequences, FiniteSets, Bags, TLC

VARIABLES
  snapshot,        \* the tracing.SpansSnapshot argument: [Traces, Stacks]
  pc,              \* position inside ProcessSnapshot
  processedSpans,  \* []processedSpan, pre-sized to len(spans)
  spansMap,        \* map[uint64]*processedSpan, as SpanID -> index
  childrenMap,     \* map[uint64][]*processedSpan, as ParentSpanID -> indices
  i,               \* index of the outer "for ... range" loop in progress
  s,               \* the range loop's copy of processedSpans[i]
  j,               \* index of the inner "for _, t := range s.Tags" loop
  tag,             \* the tag parameter of the propagate function running
  parentID,        \* propagateTagUpwards' local parentID
  walked,          \* iterations made by the running propagateTagUpwards loop
  callStack,       \* frames of propagateInheritTagDownwards: [sp, k]
  stacks,          \* the stacks map being built (lines 67-77)
  first            \* the result of an earlier call on a reordered snapshot

vars == <<snapshot, pc, processedSpans, spansMap, childrenMap, i, s, j, tag,
          parentID, walked, callStack, stacks, first>>

---------------------------------------------------------------------------
(* Bounds of the model.                                                    *)

\* Largest number of spans in a snapshot of the propagation families.
MaxSpans == 3

\* Largest number of spans in a snapshot of the lock-resolver family.
MaxTxnSpans == 3

---------------------------------------------------------------------------
(* Go values.                                                              *)

\* The zero value of a Go map / a nil slice.
EmptyMap == <<>>

\* m[k] = v on a Go map.
MapPut(m, k, v) == [x \in (DOMAIN m) \cup {k} |-> IF x = k THEN v ELSE m[x]]

\* m[k] on a map[string]string: the zero value "" when k is absent.
MapGet(m, k) == IF k \in DOMAIN m THEN m[k] ELSE ""

\* for _, r := range snapshot.Traces { spans = append(spans, r...) }
RECURSIVE Flatten(_)
Flatten(traces) ==
  IF traces = <<>> THEN <<>> ELSE Head(traces) \o Flatten(Tail(traces))

\* The flattened recordings of the snapshot being processed.
spans == Flatten(snapshot.Traces)

\* var hiddenTags
hiddenTags == {"_unfinished", "_verbose", "_dropped", "node", "store"}

\* The tag keys of the model in the byte order sort.Strings uses
\* ('_' = 0x5f sorts before the lower-case letters).
KeyOrder == <<"_dropped", "_unfinished", "_verbose", "lock_holder_txn",
              "node", "statement", "store", "txn">>

KeyRank(k) == CHOOSE n \in 1..Len(KeyOrder) : KeyOrder[n] = k

\* a < b on Go strings, for the keys of KeyOrder.
StringLess(a, b) == KeyRank(a) < KeyRank(b)

\* The keys in descending order.
ReverseSortStrings(keys) ==
  LET RECURSIVE Desc(_)
      Desc(ks) == IF ks = {} THEN <<>>
                  ELSE LET m == CHOOSE x \in ks : \A y \in ks \ {x} : StringLess(y, x)
                       IN <<m>> \o Desc(ks \ {m})
  IN Desc(keys)

\* sort.Strings(tagKeys), tagKeys holding the keys of a map (no duplicates).
SortStrings(keys) ==
  LET RECURSIVE Asc(_)
      Asc(ks) == IF ks = {} THEN <<>>
                 ELSE LET m == CHOOSE x \in ks : \A y \in ks \ {x} : StringLess(x, y)
                      IN <<m>> \o Asc(ks \ {m})
  IN Asc(keys)

\* The number of bytes processTag keeps of a lock holder's txn id (v[:8]).
TxnIDShortLen == 8

\* The message ProcessSnapshot stores for a goroutine without a stack.
StackPlaceholder ==
  "Goroutine not found. Goroutine must have finished since the span was created."

---------------------------------------------------------------------------
(* findTxnState                                                            *)

\* The inner loop "for _, s2 := range t": the curQuery of the first
\* "sql query" span of trace t at or after position n; found is set either way.
RECURSIVE FindQuery(_, _)
FindQuery(t, n) ==
  IF n > Len(t) THEN [found |-> TRUE, curQuery |-> ""]
  ELSE IF t[n].Operation = "sql query"
       THEN [found |-> TRUE, curQuery |-> MapGet(t[n].Tags, "statement")]
       ELSE FindQuery(t, n + 1)

\* The loop "for _, s := range t" from position n of trace number ti, and
\* then the following traces.
RECURSIVE FindTxn(_, _, _, _)
FindTxn(txnID, traces, ti, n) ==
  IF ti > Len(traces) THEN [found |-> FALSE, curQuery |-> ""]
  ELSE IF n > Len(traces[ti]) THEN FindTxn(txnID, traces, ti + 1, 1)
  ELSE IF traces[ti][n].Operation # "sql txn"
          \/ MapGet(traces[ti][n].Tags, "txn") # txnID
       THEN FindTxn(txnID, traces, ti, n + 1)
       ELSE FindQuery(traces[ti], 1)

findTxnState(txnID, snap) == FindTxn(txnID, snap.Traces, 1, 1)

---------------------------------------------------------------------------
(* processTag, processSpan                                                 *)

\* ProcessedTag{Key: k, Val: v} with hidden set from hiddenTags.
BaseTag(k, v) ==
  [Key |-> k, Val |-> v, Caption |-> "", Link |-> "",
   Hidden |-> (k \in hiddenTags), Highlight |-> FALSE,
   Inherit |-> FALSE, Inherited |-> FALSE,
   PropagateUp |-> FALSE, CopiedFromChild |-> FALSE]

\* v[:8] faults (slice bounds out of range) when v has fewer than 8 bytes.
processTagPanics(k, v) == k = "lock_holder_txn" /\ Len(v) < TxnIDShortLen

\* The caption chosen from findTxnState's result (lines 205-211).
LockCaption(txnState) ==
  IF ~txnState.found THEN "blocked on unknown transaction"
  ELSE IF txnState.curQuery # ""
       THEN "blocked on txn currently running query: " \o txnState.curQuery
       ELSE "blocked on idle txn"

\* processTag where it does not fault.
processTag(k, v, snap) ==
  IF k = "lock_holder_txn"
  THEN LET txnIDShort == SubSeq(v, 1, TxnIDShortLen)
       IN [BaseTag(k, v) EXCEPT !.Val = txnIDShort,
                                !.PropagateUp = TRUE,
                                !.Highlight = TRUE,
                                !.Link = txnIDShort,
                                !.Caption = LockCaption(findTxnState(v, snap))]
  ELSE IF k = "statement"
       THEN [BaseTag(k, v) EXCEPT !.Inherit = TRUE, !.PropagateUp = TRUE]
       ELSE BaseTag(k, v)

\* processSpan faults when processTag faults on one of the span's tags.
processSpanPanics(rs) ==
  \E k \in DOMAIN rs.Tags : processTagPanics(k, rs.Tags[k])

processSpan(rs, snap) ==
  LET tagKeys == SortStrings(DOMAIN rs.Tags)
  IN [Operation    |-> rs.Operation,
      SpanID       |-> rs.SpanID,
      ParentSpanID |-> rs.ParentSpanID,
      GoroutineID  |-> rs.GoroutineID,
      Tags         |-> [n \in 1..Len(tagKeys) |->
                          processTag(tagKeys[n], rs.Tags[tagKeys[n]], snap)]]

\* The zero value of processedSpan (make([]processedSpan, len(spans))).
ZeroSpan ==
  [Operation |-> "", SpanID |-> 0, ParentSpanID |-> 0, GoroutineID |-> 0,
   Tags |-> <<>>]

---------------------------------------------------------------------------
(* ProcessSnapshot, lines 33-46: building the table and the two indexes.   *)

\* One iteration of "for i, s := range spans" in which processSpan returns.
IndexSpan ==
  /\ pc = "index"
  /\ i <= Len(spans)
  /\ ~processSpanPanics(spans[i])
  /\ LET p == processSpan(spans[i], snapshot)
     IN /\ processedSpans' = [processedSpans EXCEPT ![i] = p]
        /\ spansMap' = MapPut(spansMap, p.SpanID, i)
        /\ childrenMap' =
             MapPut(childrenMap, p.ParentSpanID,
                    IF p.ParentSpanID \in DOMAIN childrenMap
                    THEN Append(childrenMap[p.ParentSpanID], i)
                    ELSE <<i>>)
  /\ i' = i + 1
  /\ UNCHANGED <<snapshot, pc, s, j, tag, parentID, walked, callStack,
                 stacks, first>>

\* The iteration in which processTag's v[:8] faults: the call never returns.
IndexPanic ==
  /\ pc = "index"
  /\ i <= Len(spans)
  /\ processSpanPanics(spans[i])
  /\ pc' = "panic"
  /\ UNCHANGED <<snapshot, processedSpans, spansMap, childrenMap, i, s, j,
                 tag, parentID, walked, callStack, stacks, first>>

\* The indexing loop ends; the upward pass begins.
IndexDone ==
  /\ pc = "index"
  /\ i > Len(spans)
  /\ pc' = "up"
  /\ i' = 1
  /\ UNCHANGED <<snapshot, processedSpans, spansMap, childrenMap, s, j, tag,
                 parentID, walked, callStack, stacks, first>>

---------------------------------------------------------------------------
(* ProcessSnapshot, lines 47-55, and propagateTagUpwards.                  *)

\* Line 50 without its CopiedFromChild test.
UpEligibleCopies(t) == t.PropagateUp

\* Line 50 negated: the tags the upward pass propagates.
UpEligible(t) == t.PropagateUp /\ ~t.CopiedFromChild

\* Lines 133-134 without line 134.
UpwardCopyKeepsInherit(t) == [t EXCEPT !.CopiedFromChild = TRUE]

\* Lines 133-134: what propagateTagUpwards does to its copy of the tag.
UpwardCopy(t) == [t EXCEPT !.CopiedFromChild = TRUE, !.Inherit = FALSE]

\* "for _, s := range processedSpans": s is a copy of element i, so s.Tags
\* is the tag list as it is when the iteration starts.
UpNextSpan ==
  /\ pc = "up"
  /\ i <= Len(processedSpans)
  /\ s' = processedSpans[i]
  /\ j' = 1
  /\ pc' = "uptags"
  /\ UNCHANGED <<snapshot, processedSpans, spansMap, childrenMap, i, tag,
                 parentID, walked, callStack, stacks, first>>

\* The upward pass ends; the downward pass begins.
UpDone ==
  /\ pc = "up"
  /\ i > Len(processedSpans)
  /\ pc' = "down"
  /\ i' = 1
  /\ UNCHANGED <<snapshot, processedSpans, spansMap, childrenMap, s, j, tag,
                 parentID, walked, callStack, stacks, first>>

\* Line 50-52: continue.
UpSkipTag ==
  /\ pc = "uptags"
  /\ j <= Len(s.Tags)
  /\ ~UpEligible(s.Tags[j])
  /\ j' = j + 1
  /\ UNCHANGED <<snapshot, pc, processedSpans, spansMap, childrenMap, i, s,
                 tag, parentID, walked, callStack, stacks, first>>

\* UpCall with the walk starting at the span itself (parentID := sp.SpanID).
UpCallFromSpan ==
  /\ pc = "uptags"
  /\ j <= Len(s.Tags)
  /\ UpEligible(s.Tags[j])
  /\ tag' = UpwardCopy(s.Tags[j])
  /\ parentID' = s.SpanID
  /\ walked' = 0
  /\ pc' = "upwalk"
  /\ UNCHANGED <<snapshot, processedSpans, spansMap, childrenMap, i, s, j,
                 callStack, stacks, first>>

\* Line 53 and lines 133-135: the call of propagateTagUpwards(t, &s, spansMap).
UpCall ==
  /\ pc = "uptags"
  /\ j <= Len(s.Tags)
  /\ UpEligible(s.Tags[j])
  /\ tag' = UpwardCopy(s.Tags[j])
  /\ parentID' = s.ParentSpanID
  /\ walked' = 0
  /\ pc' = "upwalk"
  /\ UNCHANGED <<snapshot, processedSpans, spansMap, childrenMap, i, s, j,
                 callStack, stacks, first>>

\* The inner loop of the upward pass ends: next span.
UpTagsDone ==
  /\ pc = "uptags"
  /\ j > Len(s.Tags)
  /\ i' = i + 1
  /\ pc' = "up"
  /\ UNCHANGED <<snapshot, processedSpans, spansMap, childrenMap, s, j, tag,
                 parentID, walked, callStack, stacks, first>>

\* Lines 137-142: one iteration of propagateTagUpwards' loop that finds the
\* parent.  The model follows a walk for at most Len(spans) + 1 iterations:
\* a walk that long has visited some span twice and never ends.
UpWalkAppend ==
  /\ pc = "upwalk"
  /\ parentID \in DOMAIN spansMap
  /\ walked <= Len(spans)
  /\ LET p == spansMap[parentID]
     IN /\ processedSpans' =
             [processedSpans EXCEPT ![p].Tags = Append(@, tag)]
        /\ parentID' = processedSpans[p].ParentSpanID
  /\ walked' = walked + 1
  /\ UNCHANGED <<snapshot, pc, spansMap, childrenMap, i, s, j, tag,
                 callStack, stacks, first>>

\* Lines 138-140: the parent id has no entry; propagateTagUpwards returns.
UpWalkReturn ==
  /\ pc = "upwalk"
  /\ parentID \notin DOMAIN spansMap
  /\ j' = j + 1
  /\ pc' = "uptags"
  /\ UNCHANGED <<snapshot, processedSpans, spansMap, childrenMap, i, s, tag,
                 parentID, walked, callStack, stacks, first>>

---------------------------------------------------------------------------
(* ProcessSnapshot, lines 56-64, and propagateInheritTagDownwards.         *)

\* Line 59 without its Inherited test.
DownEligibleCopies(t) == t.Inherit

\* Line 59 negated: the tags the downward pass propagates.
DownEligible(t) == t.Inherit /\ ~t.Inherited

\* Lines 149-151 without line 151.
InheritedCopyVisible(t) == [t EXCEPT !.PropagateUp = FALSE, !.Inherited = TRUE]

\* Lines 149-151: what propagateInheritTagDownwards does to its copy.
InheritedCopy(t) ==
  [t EXCEPT !.PropagateUp = FALSE, !.Inherited = TRUE, !.Hidden = TRUE]

\* children[id]: a nil slice when id has no entry.
ChildrenOf(id) == IF id \in DOMAIN childrenMap THEN childrenMap[id] ELSE <<>>

DownNextSpan ==
  /\ pc = "down"
  /\ i <= Len(processedSpans)
  /\ s' = processedSpans[i]
  /\ j' = 1
  /\ pc' = "downtags"
  /\ UNCHANGED <<snapshot, processedSpans, spansMap, childrenMap, i, tag,
                 parentID, walked, callStack, stacks, first>>

\* The downward pass ends.
DownDone ==
  /\ pc = "down"
  /\ i > Len(processedSpans)
  /\ pc' = "stacks"
  /\ UNCHANGED <<snapshot, processedSpans, spansMap, childrenMap, i, s, j,
                 tag, parentID, walked, callStack, stacks, first>>

\* Lines 59-61: continue.
DownSkipTag ==
  /\ pc = "downtags"
  /\ j <= Len(s.Tags)
  /\ ~DownEligible(s.Tags[j])
  /\ j' = j + 1
  /\ UNCHANGED <<snapshot, pc, processedSpans, spansMap, childrenMap, i, s,
                 tag, parentID, walked, callStack, stacks, first>>

\* Line 62 and lines 149-151: the call
\* propagateInheritTagDownwards(t, &s, childrenMap).
DownCall ==
  /\ pc = "downtags"
  /\ j <= Len(s.Tags)
  /\ DownEligible(s.Tags[j])
  /\ tag' = InheritedCopy(s.Tags[j])
  /\ callStack' = <<[sp |-> s.SpanID, k |-> 1]>>
  /\ pc' = "downcall"
  /\ UNCHANGED <<snapshot, processedSpans, spansMap, childrenMap, i, s, j,
                 parentID, walked, stacks, first>>

DownTagsDone ==
  /\ pc = "downtags"
  /\ j > Len(s.Tags)
  /\ i' = i + 1
  /\ pc' = "down"
  /\ UNCHANGED <<snapshot, processedSpans, spansMap, childrenMap, s, j, tag,
                 parentID, walked, callStack, stacks, first>>

\* Lines 152-154 in the innermost call: append the tag to the next child
\* and call propagateInheritTagDownwards on it.  The model follows the
\* recursion to a depth of Len(spans) + 2 frames: a chain of calls that deep
\* has entered some span twice and never returns.  Every call rewrites its
\* own copy of the tag on entry, which leaves the caller's copy as it is:
\* the rewrite of lines 149-151 changes nothing the second time.
DownRecurse ==
  /\ pc = "downcall"
  /\ Len(callStack) <= Len(spans) + 1
  /\ LET top  == callStack[Len(callStack)]
         kids == ChildrenOf(top.sp)
     IN /\ top.k <= Len(kids)
        /\ processedSpans' =
             [processedSpans EXCEPT ![kids[top.k]].Tags = Append(@, tag)]
        /\ callStack' =
             Append([callStack EXCEPT ![Len(callStack)].k = top.k + 1],
                    [sp |-> processedSpans[kids[top.k]].SpanID, k |-> 1])
  /\ tag' = InheritedCopy(tag)
  /\ UNCHANGED <<snapshot, pc, spansMap, childrenMap, i, s, j, parentID,
                 walked, stacks, first>>

\* The innermost call has gone through its children and returns; the
\* outermost call returns to the pass loop.
DownReturn ==
  /\ pc = "downcall"
  /\ LET top == callStack[Len(callStack)]
     IN top.k > Len(ChildrenOf(top.sp))
  /\ callStack' = SubSeq(callStack, 1, Len(callStack) - 1)
  /\ pc' = IF Len(callStack) = 1 THEN "downtags" ELSE "downcall"
  /\ j' = IF Len(callStack) = 1 THEN j + 1 ELSE j
  /\ UNCHANGED <<snapshot, processedSpans, spansMap, childrenMap, i, s, tag,
                 parentID, walked, stacks, first>>

---------------------------------------------------------------------------
(* ProcessSnapshot, lines 66-81: the stacks.                               *)

\* int(s.GoroutineID); the goroutine ids of the model are far below 2^63,
\* where the conversion keeps the value.
IntOfGoroutineID(g) == g

\* Lines 74-76 with overwriting instead of the presence test.
OverwriteStack(m, gid) == MapPut(m, gid, StackPlaceholder)

\* Lines 74-76.
FillStack(m, gid) ==
  IF gid \in DOMAIN m THEN m ELSE MapPut(m, gid, StackPlaceholder)

\* Lines 67-70: stacks is a new map holding snapshot.Stacks' entries.
CopyStacks ==
  /\ pc = "stacks"
  /\ stacks' = [g \in DOMAIN snapshot.Stacks |-> snapshot.Stacks[g]]
  /\ i' = 1
  /\ pc' = "fill"
  /\ UNCHANGED <<snapshot, processedSpans, spansMap, childrenMap, s, j, tag,
                 parentID, walked, callStack, first>>

\* Lines 72-77: one iteration of "for _, s := range spans".
FillStacks ==
  /\ pc = "fill"
  /\ i <= Len(spans)
  /\ stacks' = FillStack(stacks, IntOfGoroutineID(spans[i].GoroutineID))
  /\ i' = i + 1
  /\ UNCHANGED <<snapshot, pc, processedSpans, spansMap, childrenMap, s, j,
                 tag, parentID, walked, callStack, first>>

\* Lines 78-81: return &ProcessedSnapshot{Spans: processedSpans, Stacks: stacks}.
Return ==
  /\ pc = "fill"
  /\ i > Len(spans)
  /\ pc' = "done"
  /\ UNCHANGED <<snapshot, processedSpans, spansMap, childrenMap, i, s, j,
                 tag, parentID, walked, callStack, stacks, first>>

---------------------------------------------------------------------------
(* The snapshots ProcessSnapshot is called on.                             *)

RawSpan(op, id, parent, gid, tags) ==
  [Operation |-> op, SpanID |-> id, ParentSpanID |-> parent,
   GoroutineID |-> gid, Tags |-> tags]

\* Transaction ids: two of sixteen bytes, one of three and the empty one.
TxnA == "abcdef1234567890"
TxnB == "abcdef12ffffffff"
TxnShort == "tx1"

\* The statement recorded on the span with id n.
StatementOf(n) == IF n = 1 THEN "SELECT 1"
                  ELSE IF n = 2 THEN "SELECT 2"
                  ELSE IF n = 3 THEN "SELECT 3"
                  ELSE IF n = 4 THEN "SELECT 4" ELSE "SELECT 5"

\* Tag sets of the spans of the propagation family: kind 1 has no tags,
\* kind 2 a statement, kind 3 a lock holder and a node.
TreeKinds == {1, 2, 3}

TreeTags(kind, n) ==
  IF kind = 1 THEN EmptyMap
  ELSE IF kind = 2 THEN "statement" :> StatementOf(n)
  ELSE ("lock_holder_txn" :> TxnA) @@ ("node" :> "n1")

\* Operation and tags of the spans of the lock-resolver family.
TxnKinds ==
  { [op |-> "sql txn",   tags |-> "txn" :> TxnA],
    [op |-> "sql txn",   tags |-> "txn" :> TxnB],
    [op |-> "other",     tags |-> "txn" :> TxnA],
    [op |-> "sql query", tags |-> "statement" :> "SELECT 1"],
    [op |-> "sql query", tags |-> "statement" :> "SELECT 2"],
    [op |-> "sql query", tags |-> EmptyMap],
    [op |-> "other",     tags |-> "lock_holder_txn" :> TxnA],
    [op |-> "other",     tags |-> "lock_holder_txn" :> TxnShort],
    [op |-> "other",     tags |-> "lock_holder_txn" :> ""] }

\* Goroutine ids of the captured stacks; spans also run on goroutine 3.
GoroutineIDs == {1, 2}

StackText(g) == IF g = 1 THEN "goroutine 1 [running]" ELSE "goroutine 2 [select]"

\* The recordings sp as one trace, or as two traces cut after position cut.
TracesOf(sp, cut) ==
  IF cut >= Len(sp) THEN <<sp>>
  ELSE <<SubSeq(sp, 1, cut), SubSeq(sp, cut + 1, Len(sp))>>

\* Propagation family: n spans with ids 1..n in list order, any parent id in
\* 0..n (0 is dangling; self-parents and longer cycles are included), each
\* span with the tags of one of TreeKinds.
TreeSnapshot(n, par, kd) ==
  [Traces |-> <<[k \in 1..n |-> RawSpan("op", k, par[k], 1, TreeTags(kd[k], k))]>>,
   Stacks |-> 1 :> StackText(1)]

\* Duplicate-id family: spans whose ids need not differ, a statement tag on
\* each.
DupSnapshot(n, id, par) ==
  [Traces |-> <<[k \in 1..n |->
                   RawSpan("op", id[k], par[k], 1, "statement" :> StatementOf(k))]>>,
   Stacks |-> EmptyMap]

\* Lock-resolver family: n root spans in one or two traces.
TxnSnapshot(n, kd, cut) ==
  [Traces |-> TracesOf([k \in 1..n |-> RawSpan(kd[k].op, k, 0, 1, kd[k].tags)], cut),
   Stacks |-> EmptyMap]

\* Stack family: untagged root spans on any goroutines, and any set of
\* captured stacks.
StackSnapshot(n, g, have) ==
  [Traces |-> <<[k \in 1..n |-> RawSpan("op", k, 0, g[k], EmptyMap)]>>,
   Stacks |-> [x \in have |-> StackText(x)]]

\* No earlier call.
NoResult == [Spans |-> <<>>, Stacks |-> EmptyMap, none |-> TRUE]

\* The state ProcessSnapshot(snap) starts its first loop in (lines 27-35).
Start(snap) ==
  /\ snapshot = snap
  /\ pc = "index"
  /\ processedSpans = [k \in 1..Len(Flatten(snap.Traces)) |-> ZeroSpan]
  /\ spansMap = EmptyMap
  /\ childrenMap = EmptyMap
  /\ i = 1
  /\ s = ZeroSpan
  /\ j = 1
  /\ tag = BaseTag("", "")
  /\ parentID = 0
  /\ walked = 0
  /\ callStack = <<>>
  /\ stacks = EmptyMap

InitTreeUpTo(m) ==
  \E n \in 1..m : \E par \in [1..n -> 0..n], kd \in [1..n -> TreeKinds] :
    Start(TreeSnapshot(n, par, kd))

InitDup ==
  \E n \in 2..MaxSpans : \E id \in [1..n -> 1..2], par \in [1..n -> 0..2] :
    Start(DupSnapshot(n, id, par))

InitTxnUpTo(m) ==
  \E n \in 1..m : \E kd \in [1..n -> TxnKinds], cut \in 1..n :
    Start(TxnSnapshot(n, kd, cut))

InitStacks ==
  \E n \in 0..MaxSpans :
    \E g \in [1..n -> GoroutineIDs \cup {3}], have \in SUBSET GoroutineIDs :
      Start(StackSnapshot(n, g, have))

Init ==
  /\ InitTreeUpTo(MaxSpans) \/ InitDup \/ InitTxnUpTo(MaxTxnSpans) \/ InitStacks
  /\ first = NoResult

Next ==
  \/ IndexSpan \/ IndexPanic \/ IndexDone
  \/ UpNextSpan \/ UpDone \/ UpSkipTag \/ UpCall \/ UpTagsDone
  \/ UpWalkAppend \/ UpWalkReturn
  \/ DownNextSpan \/ DownDone \/ DownSkipTag \/ DownCall \/ DownTagsDone
  \/ DownRecurse \/ DownReturn
  \/ CopyStacks \/ FillStacks \/ Return

\* One call of ProcessSnapshot on each snapshot of the four families.
Spec == Init /\ [][Next]_vars

---------------------------------------------------------------------------
(* A second call on the same spans in another order.                       *)

\* sp with the recordings at positions p and p + 1 exchanged.
SwapAdjacent(sp, p) ==
  [k \in 1..Len(sp) |-> IF k = p THEN sp[p + 1]
                        ELSE IF k = p + 1 THEN sp[p] ELSE sp[k]]

\* The flat list sp cut into traces as long as those of traces.
RECURSIVE Regroup(_, _)
Regroup(sp, traces) ==
  IF traces = <<>> THEN <<>>
  ELSE <<SubSeq(sp, 1, Len(Head(traces)))>>
       \o Regroup(SubSeq(sp, Len(Head(traces)) + 1, Len(sp)), Tail(traces))

\* The caller keeps the returned ProcessedSnapshot and calls ProcessSnapshot
\* again on a snapshot that holds the same spans with two neighbours of the
\* flattened list exchanged.
Reorder ==
  /\ pc = "done"
  /\ first = NoResult
  /\ \E p \in 1..(Len(spans) - 1) :
       snapshot' = [snapshot EXCEPT
                      !.Traces = Regroup(SwapAdjacent(spans, p), snapshot.Traces)]
  /\ first' = [Spans |-> processedSpans, Stacks |-> stacks, none |-> FALSE]
  /\ pc' = "index"
  /\ processedSpans' = [k \in 1..Len(spans) |-> ZeroSpan]
  /\ spansMap' = EmptyMap
  /\ childrenMap' = EmptyMap
  /\ i' = 1
  /\ s' = ZeroSpan
  /\ j' = 1
  /\ tag' = BaseTag("", "")
  /\ parentID' = 0
  /\ walked' = 0
  /\ callStack' = <<>>
  /\ stacks' = EmptyMap

InitReorder ==
  /\ InitTreeUpTo(MaxSpans) \/ InitTxnUpTo(1)
  /\ first = NoResult

NextReorder == Next \/ Reorder

\* Two calls of ProcessSnapshot, the second on the reordered snapshot.
SpecReorder == InitReorder /\ [][NextReorder]_vars

---------------------------------------------------------------------------
(* The span tree as the snapshot declares it, and the tags of the result.  *)

\* Span ids are unique within the snapshot.
UniqueIDs ==
  \A a, b \in 1..Len(spans) : a # b => spans[a].SpanID # spans[b].SpanID

\* The position of the span with this id; 0 when the id is dangling.
PosOf(id) ==
  IF \E k \in 1..Len(spans) : spans[k].SpanID = id
  THEN CHOOSE k \in 1..Len(spans) : spans[k].SpanID = id
  ELSE 0

ParentPos(k) == PosOf(spans[k].ParentSpanID)

\* The spans met by following parent ids from span k, at most fuel times,
\* stopping at the first dangling parent id.
RECURSIVE AncestorsWithin(_, _)
AncestorsWithin(k, fuel) ==
  IF fuel = 0 \/ ParentPos(k) = 0 THEN {}
  ELSE {ParentPos(k)} \cup AncestorsWithin(ParentPos(k), fuel - 1)

StrictAncestors(k) == AncestorsWithin(k, Len(spans))

StrictDescendants(a) == {k \in 1..Len(spans) : a \in StrictAncestors(k)}

\* No span is its own ancestor.
Acyclic == \A k \in 1..Len(spans) : k \notin StrictAncestors(k)

WellFormed == UniqueIDs /\ Acyclic

TagsOf(k) == processedSpans[k].Tags

TagSet(k) == {TagsOf(k)[n] : n \in 1..Len(TagsOf(k))}

\* The tags a span holds in its own right.
Originals(k) == {t \in TagSet(k) : ~t.CopiedFromChild /\ ~t.Inherited}

\* What enrichment made of span k's raw tags.
Enriched(k) == processSpan(spans[k], snapshot).Tags

\* The first tags of span k are (still) the enriched ones.
KeepsEnriched(k) ==
  /\ Len(TagsOf(k)) >= Len(Enriched(k))
  /\ \A n \in 1..Len(Enriched(k)) : TagsOf(k)[n] = Enriched(k)[n]

ExpectedUpCopy(t) == [t EXCEPT !.CopiedFromChild = TRUE, !.Inherit = FALSE]

ExpectedDownCopy(t) ==
  [t EXCEPT !.Inherited = TRUE, !.PropagateUp = FALSE, !.Hidden = TRUE]

\* How many tags of span k satisfy P.
CountTags(k, P(_)) == Cardinality({n \in 1..Len(TagsOf(k)) : P(TagsOf(k)[n])})

Keys == {KeyOrder[n] : n \in 1..Len(KeyOrder)}

---------------------------------------------------------------------------
(* C1 *)

\* C1, upward completeness: in a returned snapshot with unique ids and
\* acyclic parent links, every strict ancestor of a span S carries, for each
\* original PropagateUp tag T of S, a copy equal to T except
\* CopiedFromChild = TRUE and Inherit = FALSE; and every CopiedFromChild tag
\* on a span is such a copy of an original tag of one of its strict
\* descendants.
C1_UpwardCompleteness ==
  (pc = "done" /\ WellFormed) =>
    /\ \A S \in 1..Len(spans) : \A T \in Originals(S) :
         T.PropagateUp =>
           \A A \in StrictAncestors(S) : ExpectedUpCopy(T) \in TagSet(A)
    /\ \A A \in 1..Len(spans) : \A c \in TagSet(A) :
         c.CopiedFromChild =>
           \E S \in StrictDescendants(A) : \E T \in Originals(S) :
             T.PropagateUp /\ c = ExpectedUpCopy(T)

\* A chain of three spans whose lowest span's statement reached both of its
\* ancestors, the walk stopping at the root's dangling parent id.
C1_Witness ==
  /\ pc = "done" /\ WellFormed
  /\ \E S \in 1..Len(spans) : \E T \in Originals(S) :
       /\ T.PropagateUp /\ T.Inherit
       /\ Cardinality(StrictAncestors(S)) = 2
       /\ \A A \in StrictAncestors(S) : ExpectedUpCopy(T) \in TagSet(A)

---------------------------------------------------------------------------
(* C2 *)

\* C2, downward completeness: in a returned snapshot with unique ids and
\* acyclic parent links, every transitive descendant of a span S carries,
\* for each original Inherit tag T of S, a copy with Inherited = TRUE,
\* PropagateUp = FALSE and Hidden = TRUE, and S's own tags are as enrichment
\* made them (Hidden included).
C2_DownwardCompleteness ==
  (pc = "done" /\ WellFormed) =>
    \A S \in 1..Len(spans) :
      /\ KeepsEnriched(S)
      /\ \A T \in Originals(S) :
           T.Inherit =>
             /\ T.Hidden = (T.Key \in hiddenTags)
             /\ \A D \in StrictDescendants(S) : ExpectedDownCopy(T) \in TagSet(D)

\* A statement inherited by a child and by a grandchild, still unhidden on
\* its own span.
C2_Witness ==
  /\ pc = "done" /\ WellFormed
  /\ \E S, D, E \in 1..Len(spans) : \E T \in Originals(S) :
       /\ ParentPos(D) = S /\ ParentPos(E) = D
       /\ T.Inherit /\ ~T.Hidden
       /\ ExpectedDownCopy(T) \in TagSet(D)
       /\ ExpectedDownCopy(T) \in TagSet(E)

---------------------------------------------------------------------------
(* C9 *)

\* C9, single trigger per direction: in a returned snapshot with unique ids
\* and acyclic parent links, a span holds as many CopiedFromChild tags of a
\* key as it has strict descendants with an original PropagateUp tag of that
\* key, and as many Inherited tags of a key as it has strict ancestors with
\* an original Inherit tag of that key; the enriched tags keep their
\* PropagateUp and Inherit flags.
C9_SingleTrigger ==
  (pc = "done" /\ WellFormed) =>
    \A A \in 1..Len(spans) :
      /\ \A key \in Keys :
           /\ LET IsUp(t) == t.CopiedFromChild /\ t.Key = key
              IN CountTags(A, IsUp) =
                   Cardinality({S \in StrictDescendants(A) :
                                  \E T \in Originals(S) :
                                    T.Key = key /\ T.PropagateUp})
           /\ LET IsDown(t) == t.Inherited /\ t.Key = key
              IN CountTags(A, IsDown) =
                   Cardinality({S \in StrictAncestors(A) :
                                  \E T \in Originals(S) :
                                    T.Key = key /\ T.Inherit})
      /\ Len(TagsOf(A)) >= Len(Enriched(A))
      /\ \A n \in 1..Len(Enriched(A)) :
           /\ TagsOf(A)[n].PropagateUp = Enriched(A)[n].PropagateUp
           /\ TagsOf(A)[n].Inherit = Enriched(A)[n].Inherit
           /\ ~TagsOf(A)[n].CopiedFromChild /\ ~TagsOf(A)[n].Inherited

\* A root above two spans that each hold a statement, visited after them:
\* it holds exactly two upward copies, and the lowest span one inherited copy.
C9_Witness ==
  /\ pc = "done" /\ WellFormed
  /\ \E A, B, C \in 1..Len(spans) :
       /\ A > B /\ ParentPos(B) = A /\ ParentPos(C) = B
       /\ \E T \in Originals(B) : T.Key = "statement"
       /\ \E T \in Originals(C) : T.Key = "statement"
       /\ LET IsUp(t) == t.CopiedFromChild /\ t.Key = "statement"
          IN CountTags(A, IsUp) = 2
       /\ LET IsDown(t) == t.Inherited /\ t.Key = "statement"
          IN CountTags(C, IsDown) = 1

---------------------------------------------------------------------------
(* C8 *)

\* C8 as claimed, fan-out from the ancestor position: for an original tag T
\* with PropagateUp and Inherit on span S, the upward copy on an ancestor A
\* keeps T's Inherit, and the descendants of A that are neither S nor
\* descendants of S carry an inherited copy of T.
C8_FanOutAsClaimed ==
  (pc = "done" /\ WellFormed) =>
    \A S \in 1..Len(spans) : \A T \in Originals(S) :
      (T.PropagateUp /\ T.Inherit) =>
        \A A \in StrictAncestors(S) :
          /\ \E c \in TagSet(A) :
               /\ c.CopiedFromChild /\ c.Key = T.Key /\ c.Val = T.Val
               /\ c.Inherit = T.Inherit
          /\ \A X \in StrictDescendants(A) \ ({S} \cup StrictDescendants(S)) :
               \E c \in TagSet(X) :
                 c.Inherited /\ c.Key = T.Key /\ c.Val = T.Val

\* C8 amended, no fan-out: every CopiedFromChild tag has Inherit = FALSE and
\* is not Inherited, and every Inherited tag on a span is the downward copy
\* of an original Inherit tag of one of the span's strict ancestors; so a
\* span that is not a descendant of S holds no inherited copy of S's tag.
C8_NoFanOut ==
  (pc = "done" /\ WellFormed) =>
    \A X \in 1..Len(spans) : \A c \in TagSet(X) :
      /\ c.CopiedFromChild => (~c.Inherit /\ ~c.Inherited)
      /\ c.Inherited =>
           \E S \in StrictAncestors(X) : \E T \in Originals(S) :
             T.Inherit /\ c = ExpectedDownCopy(T)

\* Two children S and X of a span A, statements on S and on A: A holds the
\* upward copy of S's statement with Inherit = FALSE, X inherited A's
\* statement and holds nothing of S's.
C8_Witness ==
  /\ pc = "done" /\ WellFormed
  /\ \E A, S, X \in 1..Len(spans) : \E T \in Originals(S) :
       /\ S # X /\ ParentPos(S) = A /\ ParentPos(X) = A
       /\ T.PropagateUp /\ T.Inherit
       /\ ExpectedUpCopy(T) \in TagSet(A)
       /\ \E c \in TagSet(X) : c.Inherited
       /\ \A c \in TagSet(X) : c.Val # T.Val

---------------------------------------------------------------------------
(* C3 *)

\* Tags n and n + 1 of every span are in key order.
SortedByKey(tags) ==
  \A n \in 1..(Len(tags) - 1) : ~StringLess(tags[n + 1].Key, tags[n].Key)

\* C3 as claimed, tag ordering: every span of the returned snapshot has its
\* whole tag sequence sorted by key ascending.
C3_SortedAsClaimed ==
  pc = "done" => \A k \in 1..Len(spans) : SortedByKey(TagsOf(k))

\* C3 amended: in the returned snapshot every span's tag sequence starts
\* with the span's own tags, one per raw tag key, sorted by key ascending,
\* and every tag after them is a copy appended by a propagation pass
\* (CopiedFromChild or Inherited), in the order the passes appended it.
C3_OwnTagsSorted ==
  pc = "done" =>
    \A k \in 1..Len(spans) :
      LET m == Cardinality(DOMAIN spans[k].Tags)
      IN /\ Len(TagsOf(k)) >= m
         /\ {TagsOf(k)[n].Key : n \in 1..m} = DOMAIN spans[k].Tags
         /\ \A n \in 1..m :
              ~TagsOf(k)[n].CopiedFromChild /\ ~TagsOf(k)[n].Inherited
         /\ \A n \in 1..(m - 1) :
              StringLess(TagsOf(k)[n].Key, TagsOf(k)[n + 1].Key)
         /\ \A n \in (m + 1)..Len(TagsOf(k)) :
              TagsOf(k)[n].CopiedFromChild \/ TagsOf(k)[n].Inherited

\* A span with two tags of its own that also received a copy, its whole
\* sequence being out of key order.
C3_Witness ==
  /\ pc = "done"
  /\ \E k \in 1..Len(spans) :
       /\ Cardinality(DOMAIN spans[k].Tags) >= 2
       /\ Len(TagsOf(k)) > Cardinality(DOMAIN spans[k].Tags)
       /\ ~SortedByKey(TagsOf(k))

---------------------------------------------------------------------------
(* C7 *)

\* The goroutine ids the spans refer to.
ReferencedGoroutines ==
  {spans[k].GoroutineID : k \in 1..Len(spans)}

\* C7, stack completeness: the returned stacks map has the keys of the
\* input map and the goroutine ids of the spans; a key of the input map
\* keeps its stack text, every other key has the placeholder; and no step
\* changes the input map.
C7_StackCompleteness ==
  /\ [](pc = "done" =>
          /\ DOMAIN stacks = (DOMAIN snapshot.Stacks) \cup ReferencedGoroutines
          /\ \A g \in DOMAIN stacks :
               stacks[g] = IF g \in DOMAIN snapshot.Stacks
                           THEN snapshot.Stacks[g]
                           ELSE StackPlaceholder)
  /\ [][snapshot'.Stacks = snapshot.Stacks]_vars

\* A result holding a captured stack no span refers to, a captured stack a
\* span refers to, and a placeholder.
C7_Witness ==
  /\ pc = "done"
  /\ \E a, b, c \in DOMAIN stacks :
       /\ a \in (DOMAIN snapshot.Stacks) \ ReferencedGoroutines
       /\ b \in (DOMAIN snapshot.Stacks) \cap ReferencedGoroutines
       /\ c \in ReferencedGoroutines \ (DOMAIN snapshot.Stacks)
       /\ stacks[a] = StackText(a) /\ stacks[b] = StackText(b)
       /\ stacks[c] = StackPlaceholder

---------------------------------------------------------------------------
(* C4 *)

\* C4 as claimed, termination under malformed parent links: the upward walk
\* and the downward recursion both stop on every snapshot.  A walk that
\* stops appends to no span twice, so it makes at most Len(spans) appends; a
\* recursion that returns enters no span twice on one chain of calls, so it
\* is at most Len(spans) + 1 frames deep.  A run that exceeds either repeats
\* a span, and from there repeats itself for ever.
C4_WalksStop ==
  /\ pc = "upwalk" => walked <= Len(spans)
  /\ pc = "downcall" => Len(callStack) <= Len(spans) + 1

---------------------------------------------------------------------------
(* C5 *)

Min(a, b) == IF a <= b THEN a ELSE b

\* C5 as claimed, a short lock-holder id does not fault: ProcessSnapshot
\* never faults, and in its result the tag made from a lock_holder_txn value
\* v has as Val and as Link the first min(Len(v), 8) characters of v.
C5_ShortIDNoFault ==
  /\ pc # "panic"
  /\ pc = "done" =>
       \A k \in 1..Len(spans) :
         "lock_holder_txn" \in DOMAIN spans[k].Tags =>
           LET v     == spans[k].Tags["lock_holder_txn"]
               short == SubSeq(v, 1, Min(Len(v), 8))
           IN \E t \in Originals(k) :
                t.Key = "lock_holder_txn" /\ t.Val = short /\ t.Link = short

---------------------------------------------------------------------------
(* C6 *)

\* The caption the claim gives to a lock holder with full id X.
ClaimedCaption(X) ==
  LET tr == snapshot.Traces
      M  == {ti \in 1..Len(tr) :
               \E n \in 1..Len(tr[ti]) :
                 /\ tr[ti][n].Operation = "sql txn"
                 /\ "txn" \in DOMAIN tr[ti][n].Tags
                 /\ tr[ti][n].Tags["txn"] = X}
  IN IF M = {} THEN "blocked on unknown transaction"
     ELSE LET ti == CHOOSE x \in M : \A y \in M : x <= y
              Q  == {n \in 1..Len(tr[ti]) : tr[ti][n].Operation = "sql query"}
          IN IF Q = {} THEN "blocked on idle txn"
             ELSE LET q == CHOOSE x \in Q : \A y \in Q : x <= y
                  IN "blocked on txn currently running query: "
                       \o MapGet(tr[ti][q].Tags, "statement")

\* C6 as claimed, the caption is a tri-state of the resolver: unknown
\* exactly when no "sql txn" span has the id as its txn tag; otherwise, in
\* the trace of the first such span, the running-query caption with the
\* statement of the trace's first "sql query" span whenever the trace has
\* one, and the idle caption exactly when it has none.
C6_CaptionTriState ==
  pc = "done" =>
    \A k \in 1..Len(spans) :
      "lock_holder_txn" \in DOMAIN spans[k].Tags =>
        \E t \in Originals(k) :
          /\ t.Key = "lock_holder_txn"
          /\ t.Caption = ClaimedCaption(spans[k].Tags["lock_holder_txn"])

---------------------------------------------------------------------------
(* C10 *)

\* Key, value and the six flags of a tag.
Compared(t) ==
  [Key |-> t.Key, Val |-> t.Val, Hidden |-> t.Hidden,
   Highlight |-> t.Highlight, PropagateUp |-> t.PropagateUp,
   Inherit |-> t.Inherit, Inherited |-> t.Inherited,
   CopiedFromChild |-> t.CopiedFromChild]

\* The multiset of the compared parts of a tag sequence.
TagBag(tags) ==
  LET elems == {Compared(tags[n]) : n \in 1..Len(tags)}
  IN [e \in elems |-> Cardinality({n \in 1..Len(tags) : Compared(tags[n]) = e})]

\* The span of the earlier result with this id.
FirstSpan(id) ==
  first.Spans[CHOOSE k \in 1..Len(first.Spans) : first.Spans[k].SpanID = id]

\* C10, order independence: when ProcessSnapshot has run on a snapshot with
\* unique ids and acyclic parent links and then on the same spans in another
\* order, every span has the same multiset of tags (by key, value and the
\* six flags) in both results.
C10_OrderIndependence ==
  (pc = "done" /\ ~first.none /\ WellFormed) =>
    \A k \in 1..Len(spans) :
      TagBag(TagsOf(k)) = TagBag(FirstSpan(spans[k].SpanID).Tags)

\* Both results are there and some span received its copies in a different
\* order in the two calls.
C10_Witness ==
  /\ pc = "done" /\ ~first.none /\ WellFormed
  /\ \E k \in 1..Len(spans) :
       /\ Len(TagsOf(k)) >= 2
       /\ TagsOf(k) # FirstSpan(spans[k].SpanID).Tags
       /\ \E n \in 1..Len(TagsOf(k)) : TagsOf(k)[n].CopiedFromChild
  /\ \E k \in 1..Len(spans) : \E n \in 1..Len(TagsOf(k)) : TagsOf(k)[n].Inherited

====
